---- MODULE Spec2Model ----
(***************************************************************************)
(* Team weather data repository (src/main.py): normalization of raw CSV    *)
(* rows into canonical records, loading of all team files, the team-wide   *)
(* and per-city aggregations, and the csv export.                          *)
(*                                                                         *)
(* Representation.                                                         *)
(*   - A Python str value is a sequence of one-character strings, so that  *)
(*     float(), split(), replace(), capitalize() and the `in` substring    *)
(*     test are computed character by character.                           *)
(*   - Dictionary keys are TLA+ strings; a dict is a function whose        *)
(*     DOMAIN is its key set.                                              *)
(*   - A Python float is an exact rational [num, den] in lowest terms      *)
(*     (floating rounding is not modelled); str() of a float writes at     *)
(*     most ReprDigits fractional digits.                                  *)
(*   - A value stored in a canonical record is tagged: [str |-> chars]     *)
(*     for a str and [num |-> n, den |-> d] for a float.                   *)
(***************************************************************************)
EXTENDS Integers, Sequences, FiniteSets, TLC

VARIABLES
    row,          \* normalize_row_data: the raw row passed in
    filename,     \* normalize_row_data: the source file name passed in
    result,       \* normalize_row_data: outcome of the call (or NotCalled)
    files,        \* load_all_team_data: the *.csv files of the directory
    team_data,    \* the team dataset (list of canonical records)
    loaded,       \* load_all_team_data has returned
    comparison,   \* last result of compare_team_data (or NotCalled)
    cities,       \* last allow-list passed to compare_cities_analysis
    analysis,     \* last result of compare_cities_analysis (or NotCalled)
    exported,     \* last csv file written by export_team_data_csv (or NotCalled)
    reloaded      \* the dataset loaded back from the exported file (or NotCalled)

vars == <<row, filename, result, files, team_data, loaded, comparison, cities, analysis,
          exported, reloaded>>

(***************************************************************************)
(* Bounds                                                                  *)
(***************************************************************************)
MaxKeys == 2      \* columns of a raw row given to normalize_row_data
MaxFiles == 2     \* csv files in the directory given to load_all_team_data
MaxRows == 2      \* rows of one csv file
MaxRecords == 3   \* records of a team dataset given to the aggregations
ReprDigits == 4   \* fractional digits str() writes for a float

(***************************************************************************)
(* Strings                                                                 *)
(***************************************************************************)
STR_weather_data_ == <<"w", "e", "a", "t", "h", "e", "r", "_", "d", "a", "t", "a", "_">>
STR_csv == <<".", "c", "s", "v">>
STR_Unknown == <<"U", "n", "k", "n", "o", "w", "n">>
STR_F == <<"(", "F", ")">>
STR_empty == <<>>

LOWER == <<"a", "b", "c", "d", "e", "f", "g", "h", "i", "j", "k", "l", "m", "n", "o", "p", "q", "r", "s", "t", "u", "v", "w", "x", "y", "z">>
UPPER == <<"A", "B", "C", "D", "E", "F", "G", "H", "I", "J", "K", "L", "M", "N", "O", "P", "Q", "R", "S", "T", "U", "V", "W", "X", "Y", "Z">>
DIGITS == <<"0", "1", "2", "3", "4", "5", "6", "7", "8", "9">>

\* Unicode code-point order of the characters used (for sorted()).
CODEPOINTS == <<" ", "(", ")", "-", ".", "0", "1", "2", "3", "4", "5", "6", "7", "8", "9", "A", "B", "C", "D", "E", "F", "G", "H", "I", "J", "K", "L", "M", "N", "O", "P", "Q", "R", "S", "T", "U", "V", "W", "X", "Y", "Z", "_", "a", "b", "c", "d", "e", "f", "g", "h", "i", "j", "k", "l", "m", "n", "o", "p", "q", "r", "s", "t", "u", "v", "w", "x", "y", "z">>

IndexOf(c, table) ==
    IF \E i \in 1..Len(table) : table[i] = c
    THEN CHOOSE i \in 1..Len(table) : table[i] = c
    ELSE 0

\* the least element of a set of indexes, 0 for the empty set
Least(S) == IF S = {} THEN 0 ELSE CHOOSE i \in S : \A j \in S : i <= j

upper(c) == IF IndexOf(c, LOWER) # 0 THEN UPPER[IndexOf(c, LOWER)] ELSE c

lower(c) == IF IndexOf(c, UPPER) # 0 THEN LOWER[IndexOf(c, UPPER)] ELSE c

isspace(c) == c \in {" ", "\t", "\n", "\r"}

\* bool(s) for a str s
Truthy(s) == s # <<>>

\* sub in s
Contains(s, sub) ==
    \E i \in 1..(Len(s) - Len(sub) + 1) : SubSeq(s, i, i + Len(sub) - 1) = sub

\* s.replace(old, new): every non-overlapping occurrence, left to right
RECURSIVE replace(_, _, _)
replace(s, old, new) ==
    IF Len(s) < Len(old) THEN s
    ELSE IF SubSeq(s, 1, Len(old)) = old
         THEN new \o replace(SubSeq(s, Len(old) + 1, Len(s)), old, new)
         ELSE <<Head(s)>> \o replace(Tail(s), old, new)

\* s.capitalize(): first character upper-cased, the rest lower-cased
capitalize(s) ==
    [i \in 1..Len(s) |-> IF i = 1 THEN upper(s[i]) ELSE lower(s[i])]

RECURSIVE lstrip(_)
lstrip(s) == IF s # <<>> /\ isspace(Head(s)) THEN lstrip(Tail(s)) ELSE s

RECURSIVE rstrip(_)
rstrip(s) ==
    IF s # <<>> /\ isspace(s[Len(s)]) THEN rstrip(SubSeq(s, 1, Len(s) - 1)) ELSE s

strip(s) == rstrip(lstrip(s))

\* the first token of s.split(): <<>> when split() returns the empty list
RECURSIVE FirstWord(_)
FirstWord(s) ==
    IF s = <<>> \/ isspace(Head(s)) THEN <<>> ELSE <<Head(s)>> \o FirstWord(Tail(s))

\* s.split()[0]: raises IndexError when s holds no token
split_first(s) ==
    IF lstrip(s) = <<>> THEN [raised |-> "IndexError"]
    ELSE [raised |-> "", value |-> FirstWord(lstrip(s))]

(***************************************************************************)
(* Floats                                                                  *)
(***************************************************************************)
Abs(n) == IF n < 0 THEN -n ELSE n

RECURSIVE GCD(_, _)
GCD(a, b) == IF b = 0 THEN a ELSE GCD(b, a % b)

\* the float n/d (d # 0), in lowest terms with a positive denominator
Sign(d) == IF d < 0 THEN -1 ELSE 1

Float(n, d) ==
    [num |-> (Sign(d) * n) \div GCD(Abs(n), Abs(d)),
     den |-> (Sign(d) * d) \div GCD(Abs(n), Abs(d))]

IsFloat(v) == DOMAIN v = {"num", "den"}

IsStr(v) == DOMAIN v = {"str"}

Str(s) == [str |-> s]

None == [none |-> TRUE]

IsNone(v) == DOMAIN v = {"none"}

FloatLess(a, b) == a.num * b.den < b.num * a.den

FloatAdd(a, b) == Float(a.num * b.den + b.num * a.den, a.den * b.den)

FloatSub(a, b) == Float(a.num * b.den - b.num * a.den, a.den * b.den)

FloatMul(a, b) == Float(a.num * b.num, a.den * b.den)

FloatDiv(a, b) == Float(a.num * b.den, a.den * b.num)

RECURSIVE IntOfDigits(_)
IntOfDigits(ds) ==
    IF ds = <<>> THEN 0
    ELSE 10 * IntOfDigits(SubSeq(ds, 1, Len(ds) - 1)) + (IndexOf(ds[Len(ds)], DIGITS) - 1)

RECURSIVE Pow10(_)
Pow10(k) == IF k = 0 THEN 1 ELSE 10 * Pow10(k - 1)

\* the digits and point of a stripped numeric literal, without its sign
Unsigned(t) == IF t # <<>> /\ Head(t) \in {"-", "+"} THEN Tail(t) ELSE t

IsNegative(t) == t # <<>> /\ Head(t) = "-"

\* decimal digits with at most one point, and at least one digit
IsDecimal(body) ==
    /\ \E i \in 1..Len(body) : IndexOf(body[i], DIGITS) # 0
    /\ \A i \in 1..Len(body) : IndexOf(body[i], DIGITS) # 0 \/ body[i] = "."
    /\ Cardinality({i \in 1..Len(body) : body[i] = "."}) <= 1

\* position of the point in body, 0 if there is none
PointIndex(body) == Least({i \in 1..Len(body) : body[i] = "."})

DecimalValue(body, dot) ==
    IF dot = 0 THEN Float(IntOfDigits(body), 1)
    ELSE Float(IntOfDigits(SubSeq(body, 1, dot - 1) \o SubSeq(body, dot + 1, Len(body))),
               Pow10(Len(body) - dot))

Negate(v) == [num |-> -v.num, den |-> v.den]

\* float(t) for a str t without surrounding whitespace
float_of_stripped(t) ==
    IF IsDecimal(Unsigned(t))
    THEN [raised |-> "",
          value |-> IF IsNegative(t)
                    THEN Negate(DecimalValue(Unsigned(t), PointIndex(Unsigned(t))))
                    ELSE DecimalValue(Unsigned(t), PointIndex(Unsigned(t)))]
    ELSE [raised |-> "ValueError"]

\* float(s) for a str s: surrounding whitespace stripped, optional sign,
\* decimal digits with at most one point; anything else is a ValueError.
float_of_str(s) == float_of_stripped(strip(s))

\* float(v) for a value held by a canonical record
float(v) == IF IsFloat(v) THEN [raised |-> "", value |-> v] ELSE float_of_str(v.str)

(***************************************************************************)
(* normalize_row_data                                                      *)
(***************************************************************************)
timestamp_fields == <<"timestamp", "Timestamp", "date", "Date", "time", "Time">>
city_fields == <<"city", "City", "location", "Location", "place", "Place">>
country_fields == <<"country", "Country", "nation", "Nation">>
temp_fields == <<"temperature", "Temperature", "temp", "Temp", "Temperature (F)", "Temperature (C)">>
desc_fields == <<"weather_description", "Description", "description", "weather", "Weather", "conditions", "Conditions">>
humidity_fields == <<"humidity", "Humidity", "humid", "Humid">>
wind_fields == <<"wind_speed", "Wind Speed", "wind", "Wind", "windspeed", "WindSpeed">>

\* the spelling of the temperature column names
Spelling(field) ==
    CASE field = "temperature" -> <<"t", "e", "m", "p", "e", "r", "a", "t", "u", "r", "e">>
      [] field = "Temperature" -> <<"T", "e", "m", "p", "e", "r", "a", "t", "u", "r", "e">>
      [] field = "temp" -> <<"t", "e", "m", "p">>
      [] field = "Temp" -> <<"T", "e", "m", "p">>
      [] field = "Temperature (F)" -> <<"T", "e", "m", "p", "e", "r", "a", "t", "u", "r", "e", " ", "(", "F", ")">>
      [] field = "Temperature (C)" -> <<"T", "e", "m", "p", "e", "r", "a", "t", "u", "r", "e", " ", "(", "C", ")">>

\* d[k] = v
Put(d, k, v) == [x \in DOMAIN d \cup {k} |-> IF x = k THEN v ELSE d[x]]

EmptyDict == [x \in {} |-> 0]

\* `field in row and row[field]`
PresentNonEmpty(r, field) == field \in DOMAIN r /\ Truthy(r[field])

\* lines 30-37
member_name_of(r, fname) ==
    IF "member_name" \in DOMAIN r THEN r["member_name"]
    ELSE IF Contains(fname, STR_weather_data_)
         THEN capitalize(replace(replace(fname, STR_weather_data_, STR_empty), STR_csv, STR_empty))
         ELSE STR_Unknown

\* the for/else loops of lines 41-46, 50-55, 59-64: index of the field that breaks
FirstNonEmptyField(r, fields) ==
    Least({i \in 1..Len(fields) : PresentNonEmpty(r, fields[i])})

\* string_field without the break: the last non-empty synonym wins
string_field_last(r, fields) ==
    LET present == {i \in 1..Len(fields) : PresentNonEmpty(r, fields[i])}
    IN  IF present = {} THEN STR_Unknown
        ELSE r[fields[CHOOSE i \in present : \A j \in present : j <= i]]

string_field(r, fields) ==
    LET i == FirstNonEmptyField(r, fields)
    IN  IF i = 0 THEN STR_Unknown ELSE r[fields[i]]

\* the try/except loops of lines 68-78, 90-96, 100-106: a field whose value
\* does not convert is passed over and the next field is tried
FirstNumericField(r, fields) ==
    Least({i \in 1..Len(fields) :
              PresentNonEmpty(r, fields[i]) /\ float_of_str(r[fields[i]]).raised = ""})

\* to_celsius with the threshold test written >= 50
to_celsius_ge(field, temp_value) ==
    IF Contains(Spelling(field), STR_F) \/ ~FloatLess(temp_value, Float(50, 1))
    THEN FloatDiv(FloatMul(FloatSub(temp_value, Float(32, 1)), Float(5, 1)), Float(9, 1))
    ELSE temp_value

\* lines 73-74
to_celsius(field, temp_value) ==
    IF Contains(Spelling(field), STR_F) \/ FloatLess(Float(50, 1), temp_value)
    THEN FloatDiv(FloatMul(FloatSub(temp_value, Float(32, 1)), Float(5, 1)), Float(9, 1))
    ELSE temp_value

\* lines 108-111: the raw keys copied at the end
overflow_keys(r, normalized) ==
    {key \in DOMAIN r : key \notin DOMAIN normalized /\ Truthy(r[key])}

\* lines 27-64: member_name and the text fields that always get a value
base_fields(r, fname) ==
    [k \in {"member_name", "timestamp", "city", "country"} |->
        CASE k = "member_name" -> Str(member_name_of(r, fname))
          [] k = "timestamp" -> Str(string_field(r, timestamp_fields))
          [] k = "city" -> Str(string_field(r, city_fields))
          [] k = "country" -> Str(string_field(r, country_fields))]

\* lines 66-78
with_temperature(r, normalized) ==
    LET i == FirstNumericField(r, temp_fields)
    IN  IF i = 0 THEN normalized
        ELSE Put(normalized, "temperature",
                 to_celsius(temp_fields[i], float_of_str(r[temp_fields[i]]).value))

\* line 85 raises: the matched description holds no token
description_raises(r) ==
    LET i == FirstNonEmptyField(r, desc_fields)
    IN  i # 0 /\ split_first(r[desc_fields[i]]).raised # ""

\* lines 80-86 (when line 85 does not raise)
with_description(r, normalized) ==
    LET i == FirstNonEmptyField(r, desc_fields)
    IN  IF i = 0 THEN normalized
        ELSE Put(Put(normalized, "weather_description", Str(r[desc_fields[i]])),
                 "weather_main", Str(capitalize(split_first(r[desc_fields[i]]).value)))

\* lines 88-96
with_humidity(r, normalized) ==
    LET i == FirstNumericField(r, humidity_fields)
    IN  IF i = 0 THEN normalized
        ELSE Put(normalized, "humidity", float_of_str(r[humidity_fields[i]]).value)

\* lines 98-106
with_wind_speed(r, normalized) ==
    LET i == FirstNumericField(r, wind_fields)
    IN  IF i = 0 THEN normalized
        ELSE Put(normalized, "wind_speed", float_of_str(r[wind_fields[i]]).value)

\* lines 108-111
with_overflow(r, normalized) ==
    [k \in DOMAIN normalized \cup overflow_keys(r, normalized) |->
        IF k \in DOMAIN normalized THEN normalized[k] ELSE Str(r[k])]

normalize_row_data(r, fname) ==
    IF description_raises(r) THEN [raised |-> "IndexError"]
    ELSE [raised |-> "",
          value |-> with_overflow(r,
                      with_wind_speed(r,
                        with_humidity(r,
                          with_description(r,
                            with_temperature(r, base_fields(r, fname))))))]

(***************************************************************************)
(* Inputs of normalize_row_data                                            *)
(***************************************************************************)
V_abc == <<"a", "b", "c">>
V_50 == <<"5", "0">>
V_986 == <<"9", "8", ".", "6">>
V_212 == <<"2", "1", "2">>
V_blank == <<" ">>
V_clear == <<"c", "l", "e", "a", "r", " ", "s", "k", "y">>

FILE_eric == <<"w", "e", "a", "t", "h", "e", "r", "_", "d", "a", "t", "a", "_", "e", "R", "i", "c", ".", "c", "s", "v">>
FILE_empty == <<"w", "e", "a", "t", "h", "e", "r", "_", "d", "a", "t", "a", "_", ".", "c", "s", "v">>
FILE_team == <<"t", "e", "a", "m", ".", "c", "s", "v">>

FileNames == {FILE_eric, FILE_empty, FILE_team}

NumericKeys == {"temperature", "temp", "Temperature (F)", "Temperature (C)",
                "humidity", "Humidity", "wind_speed", "Wind"}

TextKeys == {"member_name", "timestamp", "Date", "city", "City", "country", "Nation",
             "weather_description", "weather", "notes"}

NumericValues == {STR_empty, V_abc, V_50, V_986}

TextValues == {STR_empty, V_blank, V_clear}

\* the temperature columns also hold the boiling point in Fahrenheit
TemperatureKeys == {"temperature", "temp", "Temperature (F)", "Temperature (C)"}

ValuesFor(k) ==
    IF k \in TemperatureKeys THEN NumericValues \cup {V_212}
    ELSE IF k \in NumericKeys THEN NumericValues
    ELSE TextValues

\* raw rows of at most n columns
RawRows(n) ==
    UNION { {r \in [S -> NumericValues \cup {V_212} \cup TextValues] :
                 \A k \in S : r[k] \in ValuesFor(k)} :
            S \in {T \in SUBSET (NumericKeys \cup TextKeys) : Cardinality(T) <= n} }

NotCalled == [raised |-> "not called"]

NoDirectory == [exists |-> FALSE, csv |-> <<>>]

(***************************************************************************)
(* Python values held by records and results                               *)
(***************************************************************************)
\* d.get(k) and d.get(k, default)
Get(d, k) == IF k \in DOMAIN d THEN d[k] ELSE None

GetOr(d, k, default) == IF k \in DOMAIN d THEN d[k] ELSE default

\* bool(v) for a value held by a record
TruthyValue(v) ==
    CASE IsStr(v) -> v.str # <<>>
      [] IsFloat(v) -> v.num # 0
      [] OTHER -> FALSE

\* a < b for two str
StrLess(a, b) ==
    \E i \in 1..Len(b) :
        /\ i <= Len(a) + 1
        /\ \A j \in 1..(i - 1) : a[j] = b[j]
        /\ (i = Len(a) + 1 \/ IndexOf(a[i], CODEPOINTS) < IndexOf(b[i], CODEPOINTS))

\* the least str of a non-empty set of str values
MinStr(S) == CHOOSE x \in S : \A y \in S : y = x \/ StrLess(x.str, y.str)

\* sorted(list(S)) for a set S of str values
RECURSIVE sorted(_)
sorted(S) == IF S = {} THEN <<>> ELSE <<MinStr(S)>> \o sorted(S \ {MinStr(S)})

(***************************************************************************)
(* load_all_team_data                                                      *)
(***************************************************************************)
\* A directory is [exists, csv]: csv lists the files glob("*.csv") yields.
\* A file is [name, opens, rows, fails_at]: open() succeeds iff opens; rows
\* are the rows DictReader yields; fails_at = k > 0 means that reading row k
\* raises (a decoding or csv error), fails_at = 0 that every row is read.

\* lines 139-143: the rows appended to team_data from row k on, until the
\* reader or normalize_row_data raises (the except clause of line 147 ends
\* the file and keeps what was appended)
RECURSIVE read_rows(_, _)
read_rows(file, k) ==
    IF k > Len(file.rows) \/ file.fails_at = k THEN <<>>
    ELSE IF normalize_row_data(file.rows[k], file.name).raised # "" THEN <<>>
    ELSE <<normalize_row_data(file.rows[k], file.name).value>> \o read_rows(file, k + 1)

\* lines 134-148: one iteration of the loop over the files
load_file(file) == IF file.opens THEN read_rows(file, 1) ELSE <<>>

RECURSIVE load_files(_)
load_files(csv) == IF csv = <<>> THEN <<>> ELSE load_file(Head(csv)) \o load_files(Tail(csv))

load_all_team_data(directory) ==
    IF ~directory.exists THEN <<>> ELSE load_files(directory.csv)

(***************************************************************************)
(* Statistics shared by compare_team_data and compare_cities_analysis      *)
(***************************************************************************)
\* lines 172-176 / 281-285: `key in data and data[key] is not None` and the
\* float conversion does not raise
HasNumber(data, key) ==
    key \in DOMAIN data /\ ~IsNone(data[key]) /\ float(data[key]).raised = ""

\* the list of converted values of one numeric field, in record order
RECURSIVE numbers(_, _)
numbers(records, key) ==
    IF records = <<>> THEN <<>>
    ELSE (IF HasNumber(Head(records), key)
          THEN <<float(Head(records)[key]).value>> ELSE <<>>)
         \o numbers(Tail(records), key)

RECURSIVE sum(_)
sum(xs) == IF xs = <<>> THEN Float(0, 1) ELSE FloatAdd(Head(xs), sum(Tail(xs)))

max(xs) == xs[CHOOSE i \in 1..Len(xs) : \A j \in 1..Len(xs) : ~FloatLess(xs[i], xs[j])]

min(xs) == xs[CHOOSE i \in 1..Len(xs) : \A j \in 1..Len(xs) : ~FloatLess(xs[j], xs[i])]

mean(xs) == FloatDiv(sum(xs), Float(Len(xs), 1))

\* lines 203-208 / 299-303: the condition a record contributes, as a set
condition_of(data) ==
    IF TruthyValue(Get(data, "weather_main")) THEN {data["weather_main"]}
    ELSE IF TruthyValue(Get(data, "weather_description"))
         THEN {Str(capitalize(split_first(data["weather_description"].str).value))}
         ELSE {}

\* line 207 / 302 raises for this record
condition_raises(data) ==
    /\ ~TruthyValue(Get(data, "weather_main"))
    /\ TruthyValue(Get(data, "weather_description"))
    /\ split_first(data["weather_description"].str).raised # ""

weather_conditions_of(records) ==
    UNION {condition_of(records[i]) : i \in 1..Len(records)}

\* truthy_values leaving out the default value 'Unknown'
truthy_values_known(records, key) ==
    {Get(records[i], key) : i \in {i \in 1..Len(records) : TruthyValue(Get(records[i], key))}}
        \ {Str(STR_Unknown)}

\* the values of a key that are truthy (lines 197-202)
truthy_values(records, key) ==
    {Get(records[i], key) : i \in {i \in 1..Len(records) : TruthyValue(Get(records[i], key))}}

(***************************************************************************)
(* compare_team_data                                                       *)
(***************************************************************************)
\* team_stats reporting 0 instead of None when there is no value
team_stats_zero(xs) ==
    [count |-> Len(xs),
     highest |-> IF xs # <<>> THEN max(xs) ELSE Float(0, 1),
     lowest |-> IF xs # <<>> THEN min(xs) ELSE Float(0, 1),
     average |-> IF xs # <<>> THEN mean(xs) ELSE Float(0, 1)]

\* lines 214-231: one of temperature_stats, humidity_stats, wind_stats
team_stats(xs) ==
    [count |-> Len(xs),
     highest |-> IF xs # <<>> THEN max(xs) ELSE None,
     lowest |-> IF xs # <<>> THEN min(xs) ELSE None,
     average |-> IF xs # <<>> THEN mean(xs) ELSE None]

compare_team_data(data) ==
    IF data = <<>> THEN [raised |-> "", value |-> EmptyDict]
    ELSE IF \E i \in 1..Len(data) : condition_raises(data[i])
    THEN [raised |-> "IndexError"]
    ELSE [raised |-> "",
          value |->
            [total_members |-> Cardinality(truthy_values(data, "member_name")),
             total_cities |-> Cardinality(truthy_values(data, "city")),
             total_records |-> Len(data),
             temperature_stats |-> team_stats(numbers(data, "temperature")),
             humidity_stats |-> team_stats(numbers(data, "humidity")),
             wind_stats |-> team_stats(numbers(data, "wind_speed")),
             weather_conditions |-> sorted(weather_conditions_of(data)),
             countries |-> sorted(truthy_values(data, "country")),
             cities |-> sorted(truthy_values(data, "city")),
             members |-> sorted(truthy_values(data, "member_name"))]]

(***************************************************************************)
(* compare_cities_analysis                                                 *)
(***************************************************************************)
\* An allow-list argument is None or [list |-> sequence of str].

\* `if cities:` (line 256)
cities_given(allow) == ~IsNone(allow) /\ allow.list # <<>>

\* `row.get('city') and row['city'] in cities` (line 257)
in_allow_list(data, allow) ==
    /\ TruthyValue(Get(data, "city"))
    /\ \E i \in 1..Len(allow.list) : Str(allow.list[i]) = data["city"]

RECURSIVE filter_rows(_, _)
filter_rows(data, allow) ==
    IF data = <<>> THEN <<>>
    ELSE (IF in_allow_list(Head(data), allow) THEN <<Head(data)>> ELSE <<>>)
         \o filter_rows(Tail(data), allow)

\* lines 256-259
filtered_data(data, allow) ==
    IF cities_given(allow) THEN filter_rows(data, allow) ELSE data

\* line 267
city_of(data) == GetOr(data, "city", Str(STR_Unknown))

\* rows_of_city assigning instead of appending: only the last row is kept
rows_of_city_last(data, city) ==
    IF \E i \in 1..Len(data) : city_of(data[i]) = city
    THEN <<data[CHOOSE i \in 1..Len(data) :
                   /\ city_of(data[i]) = city
                   /\ \A j \in (i + 1)..Len(data) : city_of(data[j]) # city]>>
    ELSE <<>>

RECURSIVE rows_of_city(_, _)
rows_of_city(data, city) ==
    IF data = <<>> THEN <<>>
    ELSE (IF city_of(Head(data)) = city THEN <<Head(data)>> ELSE <<>>)
         \o rows_of_city(Tail(data), city)

\* lines 265-270
city_groups(data) ==
    [city \in {city_of(data[i]) : i \in 1..Len(data)} |-> rows_of_city(data, city)]

\* lines 307-324: one of temperature, humidity, wind
city_stats(xs) ==
    [count |-> Len(xs),
     avg |-> IF xs # <<>> THEN mean(xs) ELSE None,
     min |-> IF xs # <<>> THEN min(xs) ELSE None,
     max |-> IF xs # <<>> THEN max(xs) ELSE None]

\* line 326: the set whose elements list() enumerates
member_set(city_data) ==
    {GetOr(city_data[i], "member_name", Str(STR_Unknown)) : i \in 1..Len(city_data)}

\* list(S) for a set S: the elements in the order of the set's iteration,
\* which the language leaves unspecified; hash_order is a sequence holding
\* every possible element once and fixes the iteration order of one run
RECURSIVE list_of_set(_, _)
list_of_set(S, hash_order) ==
    IF hash_order = <<>> THEN <<>>
    ELSE (IF Head(hash_order) \in S THEN <<Head(hash_order)>> ELSE <<>>)
         \o list_of_set(S, Tail(hash_order))

\* lines 305-327
analyze_city(city_data, hash_order) ==
    [records |-> Len(city_data),
     temperature |-> city_stats(numbers(city_data, "temperature")),
     humidity |-> city_stats(numbers(city_data, "humidity")),
     wind |-> city_stats(numbers(city_data, "wind_speed")),
     weather_conditions |-> sorted(weather_conditions_of(city_data)),
     members |-> list_of_set(member_set(city_data), hash_order)]

\* lines 264-334, for a non-empty filtered list
analyze_groups(filtered, groups, hash_order) ==
    [cities_analyzed |-> Cardinality(DOMAIN groups),
     total_records |-> Len(filtered),
     city_data |-> [city \in DOMAIN groups |-> analyze_city(groups[city], hash_order)],
     comparison_ready |-> TRUE]

STR_no_data == <<"N", "o", " ", "d", "a", "t", "a", " ", "f", "o", "u", "n", "d", " ", "f", "o", "r", " ", "s", "p", "e", "c", "i", "f", "i", "e", "d", " ", "c", "i", "t", "i", "e", "s">>

compare_cities_analysis(data, allow, hash_order) ==
    IF data = <<>> THEN [raised |-> "", value |-> EmptyDict]
    ELSE IF filtered_data(data, allow) = <<>>
    THEN [raised |-> "", value |-> [error |-> Str(STR_no_data)]]
    ELSE IF \E i \in 1..Len(filtered_data(data, allow)) :
                condition_raises(filtered_data(data, allow)[i])
    THEN [raised |-> "IndexError"]
    ELSE [raised |-> "",
          value |-> analyze_groups(filtered_data(data, allow),
                                   city_groups(filtered_data(data, allow)),
                                   hash_order)]

(***************************************************************************)
(* export_team_data_csv and the reading back of the exported file          *)
(***************************************************************************)
\* the spelling of the column names (for sorted())
KeySpelling(key) ==
    CASE key = "timestamp" -> <<"t", "i", "m", "e", "s", "t", "a", "m", "p">>
      [] key = "member_name" -> <<"m", "e", "m", "b", "e", "r", "_", "n", "a", "m", "e">>
      [] key = "city" -> <<"c", "i", "t", "y">>
      [] key = "country" -> <<"c", "o", "u", "n", "t", "r", "y">>
      [] key = "humidity" -> <<"h", "u", "m", "i", "d", "i", "t", "y">>
      [] key = "wind_speed" -> <<"w", "i", "n", "d", "_", "s", "p", "e", "e", "d">>
      [] key = "weather_main" -> <<"w", "e", "a", "t", "h", "e", "r", "_", "m", "a", "i", "n">>
      [] key = "weather_description" -> <<"w", "e", "a", "t", "h", "e", "r", "_", "d", "e", "s", "c", "r", "i", "p", "t", "i", "o", "n">>
      [] key = "Date" -> <<"D", "a", "t", "e">>
      [] key = "City" -> <<"C", "i", "t", "y">>
      [] key = "location" -> <<"l", "o", "c", "a", "t", "i", "o", "n">>
      [] key = "Nation" -> <<"N", "a", "t", "i", "o", "n">>
      [] key = "Humidity" -> <<"H", "u", "m", "i", "d", "i", "t", "y">>
      [] key = "Wind" -> <<"W", "i", "n", "d">>
      [] key = "weather" -> <<"w", "e", "a", "t", "h", "e", "r">>
      [] key = "notes" -> <<"n", "o", "t", "e", "s">>
      [] OTHER -> Spelling(key)

\* a < b for two column names
KeyLess(a, b) == StrLess(KeySpelling(a), KeySpelling(b))

MinKey(S) == CHOOSE x \in S : \A y \in S : y = x \/ KeyLess(x, y)

\* sorted(S) for a set S of column names
RECURSIVE sorted_keys(_)
sorted_keys(S) == IF S = {} THEN <<>> ELSE <<MinKey(S)>> \o sorted_keys(S \ {MinKey(S)})

\* lines 412-414
all_fields(data) == UNION {DOMAIN data[i] : i \in 1..Len(data)}

\* line 417
standard_fields == <<"timestamp", "member_name", "city", "country", "temperature",
                     "humidity", "wind_speed", "weather_main", "weather_description">>

\* lines 421-424: the standard fields that exist, in their fixed order
RECURSIVE standard_present(_, _)
standard_present(fields, all) ==
    IF fields = <<>> THEN <<>>
    ELSE (IF Head(fields) \in all THEN <<Head(fields)>> ELSE <<>>)
         \o standard_present(Tail(fields), all)

\* ordered_fields writing every standard column, present or not
ordered_fields_all_standard(data) ==
    standard_fields
    \o sorted_keys(all_fields(data) \ {standard_fields[i] : i \in 1..Len(standard_fields)})

\* lines 418-427: the column list handed to DictWriter
ordered_fields(data) ==
    standard_present(standard_fields, all_fields(data))
    \o sorted_keys(all_fields(data) \ {standard_fields[i] : i \in 1..Len(standard_fields)})

\* the decimal digits of a natural number
RECURSIVE DigitsOf(_)
DigitsOf(n) ==
    IF n < 10 THEN <<DIGITS[n + 1]>>
    ELSE DigitsOf(n \div 10) \o <<DIGITS[(n % 10) + 1]>>

\* the last k decimal digits of n, zero padded
RECURSIVE FractionDigits(_, _)
FractionDigits(n, k) ==
    IF k = 0 THEN <<>>
    ELSE FractionDigits(n \div 10, k - 1) \o <<DIGITS[(n % 10) + 1]>>

\* trailing zeros removed, one digit kept
RECURSIVE StripZeros(_)
StripZeros(ds) ==
    IF Len(ds) > 1 /\ ds[Len(ds)] = "0" THEN StripZeros(SubSeq(ds, 1, Len(ds) - 1)) ELSE ds

\* |v| * 10^ReprDigits rounded to the nearest integer
Scaled(v) == (2 * Abs(v.num) * Pow10(ReprDigits) + v.den) \div (2 * v.den)

repr_scaled(negative, n) ==
    (IF negative THEN <<"-">> ELSE <<>>)
    \o DigitsOf(n \div Pow10(ReprDigits))
    \o <<".">>
    \o StripZeros(FractionDigits(n % Pow10(ReprDigits), ReprDigits))

\* str(v) for a float v: sign, integer part, point, fraction ("37.0")
float_repr(v) == repr_scaled(v.num < 0, Scaled(v))

\* the text csv.writer writes for a value: str(value)
to_csv(v) == IF IsFloat(v) THEN float_repr(v) ELSE v.str

\* DictWriter.writerow (line 433): one cell per column, '' for a column
\* the record lacks; the cells are the strings DictReader reads back
export_row(record, fields) ==
    [k \in {fields[i] : i \in 1..Len(fields)} |->
        IF k \in DOMAIN record THEN to_csv(record[k]) ELSE STR_empty]

export_rows(data, fields) == [i \in 1..Len(data) |-> export_row(data[i], fields)]

\* line 404: team_weather_data_<timestamp>.csv, for one reading of the clock
FILE_export == <<"t", "e", "a", "m", "_", "w", "e", "a", "t", "h", "e", "r", "_", "d", "a", "t", "a", "_", "2", "0", "2", "4", "0", "1", "0", "1", "_", "0", "0", "0", "0", "0", "0", ".", "c", "s", "v">>

\* lines 386-437: the returned path and the file written (none when empty)
export_team_data_csv(data) ==
    IF data = <<>> THEN [raised |-> "", value |-> [path |-> STR_empty]]
    ELSE [raised |-> "",
          value |-> [path |-> FILE_export,
                     fieldnames |-> ordered_fields(data),
                     rows |-> export_rows(data, ordered_fields(data))]]

\* a directory holding the exported file only
export_directory(file) ==
    [exists |-> TRUE,
     csv |-> <<[name |-> file.path, opens |-> TRUE, rows |-> file.rows, fails_at |-> 0]>>]

(***************************************************************************)
(* Inputs of load_all_team_data and of the aggregations                    *)
(***************************************************************************)
V_20 == <<"2", "0">>
V_86 == <<"8", "6">>
V_40 == <<"4", "0">>
V_Austin == <<"A", "u", "s", "t", "i", "n">>
V_Boston == <<"B", "o", "s", "t", "o", "n">>
V_Paris == <<"P", "a", "r", "i", "s">>
V_Ann == <<"A", "n", "n">>

FILE_ann == <<"w", "e", "a", "t", "h", "e", "r", "_", "d", "a", "t", "a", "_", "a", "n", "n", ".", "c", "s", "v">>
FILE_bob == <<"w", "e", "a", "t", "h", "e", "r", "_", "d", "a", "t", "a", "_", "b", "o", "b", ".", "c", "s", "v">>

\* the name of the i-th file of the directory
FileNameOf == <<FILE_ann, FILE_bob, FILE_team, FILE_eric>>

ROW_austin_20 == ("member_name" :> V_Ann) @@ ("city" :> V_Austin) @@ ("temperature" :> V_20)
ROW_austin_86F == ("City" :> V_Austin) @@ ("Temperature (F)" :> V_86) @@ ("Humidity" :> V_40)
ROW_boston_abc == ("location" :> V_Boston) @@ ("temperature" :> V_abc) @@ ("weather" :> V_clear)
ROW_nocity_50 == ("temp" :> V_50) @@ ("Wind" :> V_abc)
ROW_blank_weather == ("city" :> V_Boston) @@ ("weather" :> V_blank)

\* rows a csv file may hold; ROW_blank_weather makes normalize_row_data raise
LoadRows == {ROW_austin_20, ROW_austin_86F, ROW_boston_abc, ROW_blank_weather}

\* the row lists of at most m rows
RowSeqs(m) == UNION {[1..n -> LoadRows] : n \in 0..m}

FilesNamed(name) ==
    {[name |-> name, opens |-> FALSE, rows |-> <<>>, fails_at |-> 0]}
    \cup UNION { {[name |-> name, opens |-> TRUE, rows |-> rs, fails_at |-> k] :
                  k \in 0..Len(rs)} : rs \in RowSeqs(MaxRows) }

RECURSIVE FileSeqs(_)
FileSeqs(n) ==
    IF n = 0 THEN {<<>>}
    ELSE UNION { {Append(fs, f) : f \in FilesNamed(FileNameOf[n])} : fs \in FileSeqs(n - 1) }

\* the directories of at most m files
Directories(m) ==
    {NoDirectory}
    \cup UNION { {[exists |-> TRUE, csv |-> fs] : fs \in FileSeqs(n)} : n \in 0..m }

\* canonical records load_all_team_data returns for rows of the team's files
CanonicalPool ==
    {normalize_row_data(ROW_austin_20, FILE_ann).value,
     normalize_row_data(ROW_austin_86F, FILE_bob).value,
     normalize_row_data(ROW_boston_abc, FILE_bob).value,
     normalize_row_data(ROW_nocity_50, FILE_ann).value}

\* the datasets of at most m records
Datasets(m) == UNION {[1..n -> CanonicalPool] : n \in 0..m}

AllowLists ==
    {None, [list |-> <<>>], [list |-> <<V_Austin>>], [list |-> <<V_Paris>>],
     [list |-> <<V_Paris, V_Austin>>], [list |-> <<V_Boston, V_Austin>>]}

\* the orders in which one run may enumerate sets of member names
HashOrders(data) ==
    {h \in [1..Cardinality(member_set(data)) -> member_set(data)] :
        \A m \in member_set(data) : \E i \in DOMAIN h : h[i] = m}

(***************************************************************************)
(* Specification of normalize_row_data as a pure function of its inputs    *)
(***************************************************************************)
InitNormalize ==
    /\ row \in RawRows(MaxKeys)
    /\ filename \in FileNames
    /\ result = NotCalled
    /\ files = NoDirectory
    /\ team_data = <<>>
    /\ loaded = FALSE
    /\ comparison = NotCalled
    /\ cities = None
    /\ analysis = NotCalled
    /\ exported = NotCalled
    /\ reloaded = NotCalled

NormalizeRow ==
    /\ result = NotCalled
    /\ result' = normalize_row_data(row, filename)
    /\ UNCHANGED <<row, filename, files, team_data, loaded, comparison, cities, analysis, exported, reloaded>>

NextNormalize == NormalizeRow

SpecNormalize == InitNormalize /\ [][NextNormalize]_vars

Returned == result.raised = ""

(***************************************************************************)
(* Specification of the round trip: normalize a raw row, export the        *)
(* record, load the exported file                                          *)
(***************************************************************************)
\* export_team_data_csv([record]) for the record normalize_row_data returned
ExportRecord ==
    /\ Returned
    /\ exported = NotCalled
    /\ exported' = export_team_data_csv(<<result.value>>)
    /\ UNCHANGED <<row, filename, result, files, team_data, loaded, comparison, cities, analysis, reloaded>>

\* load_all_team_data over the exported file
ReloadExport ==
    /\ exported # NotCalled
    /\ reloaded = NotCalled
    /\ reloaded' = [raised |-> "",
                    value |-> load_all_team_data(export_directory(exported.value))]
    /\ UNCHANGED <<row, filename, result, files, team_data, loaded, comparison, cities, analysis, exported>>

NextRoundTrip == NormalizeRow \/ ExportRecord \/ ReloadExport

SpecRoundTrip == InitNormalize /\ [][NextRoundTrip]_vars

(***************************************************************************)
(* Specification of load_all_team_data                                     *)
(***************************************************************************)
InitLoad ==
    /\ row = EmptyDict
    /\ filename = STR_empty
    /\ result = NotCalled
    /\ files \in Directories(MaxFiles)
    /\ team_data = <<>>
    /\ loaded = FALSE
    /\ comparison = NotCalled
    /\ cities = None
    /\ analysis = NotCalled
    /\ exported = NotCalled
    /\ reloaded = NotCalled

LoadAllTeamData ==
    /\ ~loaded
    /\ team_data' = load_all_team_data(files)
    /\ loaded' = TRUE
    /\ UNCHANGED <<row, filename, result, files, comparison, cities, analysis, exported, reloaded>>

NextLoad == LoadAllTeamData

SpecLoad == InitLoad /\ [][NextLoad]_vars

(***************************************************************************)
(* Specification of the aggregations over a loaded team dataset            *)
(***************************************************************************)
InitAggregate ==
    /\ row = EmptyDict
    /\ filename = STR_empty
    /\ result = NotCalled
    /\ files = NoDirectory
    /\ team_data \in Datasets(MaxRecords)
    /\ loaded = TRUE
    /\ comparison = NotCalled
    /\ cities = None
    /\ analysis = NotCalled
    /\ exported = NotCalled
    /\ reloaded = NotCalled

CompareTeamData ==
    /\ loaded
    /\ comparison' = compare_team_data(team_data)
    /\ UNCHANGED <<row, filename, result, files, team_data, loaded, cities, analysis, exported, reloaded>>

CompareCitiesAnalysis ==
    /\ loaded
    /\ \E allow \in AllowLists, hash_order \in HashOrders(team_data) :
           /\ cities' = allow
           /\ analysis' = compare_cities_analysis(team_data, allow, hash_order)
    /\ UNCHANGED <<row, filename, result, files, team_data, loaded, comparison, exported, reloaded>>

ExportTeamDataCsv ==
    /\ loaded
    /\ exported' = export_team_data_csv(team_data)
    /\ UNCHANGED <<row, filename, result, files, team_data, loaded, comparison, cities, analysis, reloaded>>

NextAggregate == CompareTeamData \/ CompareCitiesAnalysis \/ ExportTeamDataCsv

SpecAggregate == InitAggregate /\ [][NextAggregate]_vars

(***************************************************************************)
(* Properties of normalize_row_data (checked under SpecNormalize)          *)
(***************************************************************************)
CanonicalFields == {"member_name", "timestamp", "city", "country", "temperature",
                    "humidity", "wind_speed", "weather_main", "weather_description"}

\* the synonyms of a list that are present and non-empty with no earlier
\* synonym present and non-empty (at most one)
FirstPresent(fields) ==
    {fields[i] : i \in {i \in 1..Len(fields) :
        /\ PresentNonEmpty(row, fields[i])
        /\ \A j \in 1..(i - 1) : ~PresentNonEmpty(row, fields[j])}}

Converts(field) == PresentNonEmpty(row, field) /\ float_of_str(row[field]).raised = ""

\* the synonyms of a list that are present, non-empty and convertible with
\* no earlier such synonym (at most one)
FirstConvertible(fields) ==
    {fields[i] : i \in {i \in 1..Len(fields) :
        /\ Converts(fields[i])
        /\ \A j \in 1..(i - 1) : ~Converts(fields[j])}}

\* C1: the record returned by normalize_row_data has a non-empty member_name,
\* also when the raw member_name is present but empty and when the source
\* name is weather_data_.csv.
C1_MemberNameNeverEmpty ==
    Returned => result.value["member_name"].str # <<>>

\* C2: each of temperature, humidity and wind_speed in the canonical record
\* is absent or holds a parsed number, never the raw unconverted string.
C2_NumericFieldsParsedOrAbsent ==
    Returned =>
        \A k \in {"temperature", "humidity", "wind_speed"} :
            k \in DOMAIN result.value => IsFloat(result.value[k])

\* the raw keys matched by a synonym mapping
Consumed ==
    (DOMAIN row \cap {"member_name"})
    \cup FirstPresent(timestamp_fields) \cup FirstPresent(city_fields)
    \cup FirstPresent(country_fields) \cup FirstPresent(desc_fields)
    \cup FirstConvertible(temp_fields) \cup FirstConvertible(humidity_fields)
    \cup FirstConvertible(wind_fields)

\* C3: the overflow passthrough copies exactly the raw keys that were not
\* consumed by a synonym mapping and whose value is non-empty; a consumed
\* raw key does not also appear under its original name.
C3_OverflowOnlyUnconsumed ==
    Returned =>
        DOMAIN result.value \ CanonicalFields =
            {k \in DOMAIN row : k \notin Consumed /\ Truthy(row[k])} \ CanonicalFields

\* canonical temperature t equals (v - 32) * 5 / 9
IsFahrenheitConversion(t, v) == t.num * 9 * v.den = (v.num - 32 * v.den) * 5 * t.den

\* C4: when a temperature synonym is matched with numeric value v, the
\* canonical temperature is (v - 32) * 5 / 9 if the key contains "(F)" or
\* v > 50, and v unchanged if v <= 50 under a key without "(F)".
C4_TemperatureConversion ==
    Returned =>
        \A field \in FirstConvertible(temp_fields) :
            LET v == float_of_str(row[field]).value
                t == result.value["temperature"]
            IN  /\ IsFloat(t)
                /\ (field = "Temperature (F)" \/ v.num > 50 * v.den)
                       => IsFahrenheitConversion(t, v)
                /\ (field # "Temperature (F)" /\ v.num <= 50 * v.den)
                       => t = v

\* C4 witness: a value above 50 under a key that does not mention (F) was
\* converted (98.6 -> 37) by a completed call.
C4_Witness ==
    /\ Returned
    /\ "Temperature (C)" \in FirstConvertible(temp_fields)
    /\ row["Temperature (C)"] = V_986
    /\ result.value["temperature"] = Float(37, 1)

\* the canonical text field c holds the value of the first present,
\* non-empty synonym, or the default when there is none
TextFromFirstPresent(c, fields, hasDefault) ==
    /\ \A field \in FirstPresent(fields) : result.value[c] = Str(row[field])
    /\ (FirstPresent(fields) = {} /\ hasDefault) => result.value[c] = Str(STR_Unknown)

\* the number the claims expect in canonical field c for the parsed value v
\* of raw column field: only temperature is converted
ExpectedNumber(c, field, v) ==
    IF c = "temperature" /\ (field = "Temperature (F)" \/ v.num > 50 * v.den)
    THEN Float((v.num - 32 * v.den) * 5, 9 * v.den)
    ELSE v

\* the canonical numeric field c, when it holds a number, holds the
\* conversion of the first present, non-empty synonym
NumberFromFirstPresent(c, fields) ==
    (c \in DOMAIN result.value /\ IsFloat(result.value[c])) =>
        \E field \in FirstPresent(fields) :
            /\ float_of_str(row[field]).raised = ""
            /\ result.value[c] = ExpectedNumber(c, field, float_of_str(row[field]).value)

\* the canonical numeric field c holds the conversion of the first present,
\* non-empty and convertible synonym, and holds no number when there is none
NumberFromFirstConvertible(c, fields) ==
    /\ \A field \in FirstConvertible(fields) :
           /\ c \in DOMAIN result.value
           /\ result.value[c] = ExpectedNumber(c, field, float_of_str(row[field]).value)
    /\ FirstConvertible(fields) = {} =>
           ~(c \in DOMAIN result.value /\ IsFloat(result.value[c]))

TextFieldsFromFirstPresent ==
    /\ TextFromFirstPresent("timestamp", timestamp_fields, TRUE)
    /\ TextFromFirstPresent("city", city_fields, TRUE)
    /\ TextFromFirstPresent("country", country_fields, TRUE)
    /\ TextFromFirstPresent("weather_description", desc_fields, FALSE)

\* C5 (as stated): every synonym-resolved field takes its value from the
\* first synonym that is present and non-empty; a later synonym is never
\* used when an earlier one is present and non-empty.
C5_FirstPresentSynonymWins ==
    Returned =>
        /\ TextFieldsFromFirstPresent
        /\ NumberFromFirstPresent("temperature", temp_fields)
        /\ NumberFromFirstPresent("humidity", humidity_fields)
        /\ NumberFromFirstPresent("wind_speed", wind_fields)

\* C5 (amended): the text fields take the first synonym that is present and
\* non-empty (timestamp, city, country default to "Unknown"); the numeric
\* fields take the first synonym that is present, non-empty and converts to
\* a float, passing over earlier synonyms that do not convert.
C5_FirstUsableSynonymWins ==
    Returned =>
        /\ TextFieldsFromFirstPresent
        /\ NumberFromFirstConvertible("temperature", temp_fields)
        /\ NumberFromFirstConvertible("humidity", humidity_fields)
        /\ NumberFromFirstConvertible("wind_speed", wind_fields)

\* C5 witness: two city synonyms are present and non-empty with different
\* values and the call returned the higher-priority one.
C5_Witness ==
    /\ Returned
    /\ PresentNonEmpty(row, "city")
    /\ PresentNonEmpty(row, "City")
    /\ row["city"] # row["City"]
    /\ result.value["city"] = Str(row["city"])

\* C6: normalize_row_data never raises for a raw record whose values are
\* strings; a malformed column never discards the record.
C6_NeverRaises ==
    result # NotCalled => Returned

(***************************************************************************)
(* Properties of load_all_team_data (checked under SpecLoad)               *)
(***************************************************************************)
\* the file fails at open or at some row during reading or normalization
FileFails(file) ==
    \/ ~file.opens
    \/ file.fails_at # 0
    \/ \E k \in 1..Len(file.rows) : normalize_row_data(file.rows[k], file.name).raised # ""

AllRowsNormalized(file) ==
    [k \in 1..Len(file.rows) |-> normalize_row_data(file.rows[k], file.name).value]

\* in-order concatenation of the normalized rows of the files that did not fail
RECURSIVE RowsOfGoodFiles(_)
RowsOfGoodFiles(csv) ==
    IF csv = <<>> THEN <<>>
    ELSE (IF FileFails(Head(csv)) THEN <<>> ELSE AllRowsNormalized(Head(csv)))
         \o RowsOfGoodFiles(Tail(csv))

\* C7: the dataset returned by load_all_team_data is exactly the in-order
\* concatenation of the normalized rows of the files that did not fail; a
\* failed file contributes no records at all, not a prefix of its rows.
C7_FailedFileContributesNothing ==
    loaded => team_data = RowsOfGoodFiles(files.csv)

(***************************************************************************)
(* Properties of the aggregations (checked under SpecAggregate)            *)
(***************************************************************************)
\* the records in which the field is present and parses as a number
ParsedIndexes(key) ==
    {i \in 1..Len(team_data) :
        /\ key \in DOMAIN team_data[i]
        /\ \/ IsFloat(team_data[i][key])
           \/ IsStr(team_data[i][key]) /\ float_of_str(team_data[i][key].str).raised = ""}

ParsedValue(i, key) ==
    IF IsFloat(team_data[i][key]) THEN team_data[i][key]
    ELSE float_of_str(team_data[i][key].str).value

\* the sum of the parsed values of the records 1..n
RECURSIVE SumUpTo(_, _)
SumUpTo(n, key) ==
    IF n = 0 THEN Float(0, 1)
    ELSE IF n \in ParsedIndexes(key) THEN FloatAdd(SumUpTo(n - 1, key), ParsedValue(n, key))
    ELSE SumUpTo(n - 1, key)

\* count, average and the None entries of one statistics entry
StatsAsClaimed(st, key) ==
    /\ st.count = Cardinality(ParsedIndexes(key))
    /\ ParsedIndexes(key) = {} =>
           st.highest = None /\ st.lowest = None /\ st.average = None
    /\ ParsedIndexes(key) # {} =>
           /\ IsFloat(st.average)
           /\ st.average.num * st.count * SumUpTo(Len(team_data), key).den
                  = SumUpTo(Len(team_data), key).num * st.average.den

\* C8: for a non-empty dataset and each numeric field, count is the number
\* of records in which the field is present and parses as a number, average
\* is sum/count of exactly those values, and highest, lowest and average
\* are None (never 0) when count is 0.
C8_TeamStatistics ==
    (comparison.raised = "" /\ team_data # <<>>) =>
        /\ StatsAsClaimed(comparison.value.temperature_stats, "temperature")
        /\ StatsAsClaimed(comparison.value.humidity_stats, "humidity")
        /\ StatsAsClaimed(comparison.value.wind_stats, "wind_speed")

\* C8 witness: a computed comparison over a dataset in which a record holds
\* an unparsable temperature, two records hold a number and no record holds
\* a humidity.
C8_Witness ==
    /\ comparison.raised = ""
    /\ team_data # <<>>
    /\ \E i \in 1..Len(team_data) :
           "temperature" \in DOMAIN team_data[i] /\ IsStr(team_data[i]["temperature"])
    /\ comparison.value.temperature_stats.count = 2
    /\ comparison.value.humidity_stats.count = 0
    /\ comparison.value.humidity_stats.average = None

RECURSIVE SumRecords(_, _)
SumRecords(city_data, S) ==
    IF S = {} THEN 0
    ELSE city_data[CHOOSE c \in S : TRUE].records
         + SumRecords(city_data, S \ {CHOOSE c \in S : TRUE})

\* a successful analysis was returned for a call without allow-list
AnalyzedAll == analysis.raised = "" /\ IsNone(cities) /\ team_data # <<>>

\* C9: without allow-list every input record is placed in exactly one city
\* group: the 'records' counts sum to total_records, which is the number of
\* input records, and cities_analyzed is the number of distinct cities.
C9_CityPartition ==
    AnalyzedAll =>
        /\ "city_data" \in DOMAIN analysis.value
        /\ SumRecords(analysis.value.city_data, DOMAIN analysis.value.city_data)
               = analysis.value.total_records
        /\ analysis.value.total_records = Len(team_data)
        /\ analysis.value.cities_analyzed
               = Cardinality({team_data[i]["city"] : i \in 1..Len(team_data)})
        /\ DOMAIN analysis.value.city_data = {team_data[i]["city"] : i \in 1..Len(team_data)}
        /\ \A c \in DOMAIN analysis.value.city_data :
               analysis.value.city_data[c].records
                   = Cardinality({i \in 1..Len(team_data) : team_data[i]["city"] = c})

\* C9 witness: an analysis without allow-list over three records that fall
\* into two city groups, one of them holding two records.
C9_Witness ==
    /\ AnalyzedAll
    /\ Len(team_data) = 3
    /\ analysis.value.cities_analyzed = 2
    /\ \E c \in DOMAIN analysis.value.city_data : analysis.value.city_data[c].records = 2

\* no city of the allow-list occurs in the records
NoListedCityOccurs ==
    \A i \in 1..Len(cities.list) : \A j \in 1..Len(team_data) :
        team_data[j]["city"] # Str(cities.list[i])

\* C10: on a non-empty dataset, an allow-list none of whose cities occurs in
\* the records yields a no-data indicator: an 'error' entry and no
\* 'city_data', distinct from the empty result and from a successful one.
C10_UnseenAllowListReportsNoData ==
    (analysis # NotCalled /\ team_data # <<>> /\ ~IsNone(cities) /\ NoListedCityOccurs) =>
        /\ analysis.raised = ""
        /\ "error" \in DOMAIN analysis.value
        /\ "city_data" \notin DOMAIN analysis.value


\* the member_name values of the records of city c
MembersOfCity(c) ==
    {team_data[i]["member_name"] : i \in {j \in 1..Len(team_data) : team_data[j]["city"] = c}}

\* the sequence names each member of S exactly once, in ascending order
IsSortedListOf(members, S) ==
    /\ {members[i] : i \in 1..Len(members)} = S
    /\ Len(members) = Cardinality(S)
    /\ \A i \in 1..(Len(members) - 1) : StrLess(members[i].str, members[i + 1].str)

\* a successful per-city analysis was returned
Analyzed == analysis.raised = "" /\ "city_data" \in DOMAIN analysis.value

\* C11: for every city group of compare_cities_analysis, 'members' is the
\* deduplicated list of the member_name values of that group's records in
\* ascending order: each contributing member once, nobody else.
C11_MembersSortedDeduplicated ==
    Analyzed =>
        \A c \in DOMAIN analysis.value.city_data :
            IsSortedListOf(analysis.value.city_data[c].members, MembersOfCity(c))

\* the cities named by the allow-list of the last call
AllowedCities == {Str(cities.list[i]) : i \in 1..Len(cities.list)}

\* C14: a call with an allow-list (any list, the empty list included)
\* that returns a successful analysis has every key of city_data in the
\* allow-list, total_records equal to the number of input records whose city
\* is in the allow-list, and no record of another city in any group.
C14_AllowListFilters ==
    (Analyzed /\ ~IsNone(cities)) =>
        /\ DOMAIN analysis.value.city_data \subseteq AllowedCities
        /\ analysis.value.total_records
               = Cardinality({i \in 1..Len(team_data) : team_data[i]["city"] \in AllowedCities})
        /\ \A c \in DOMAIN analysis.value.city_data :
               analysis.value.city_data[c].records
                   = Cardinality({i \in 1..Len(team_data) :
                                      /\ team_data[i]["city"] = c
                                      /\ team_data[i]["city"] \in AllowedCities})

\* the sum of the 'count' entries of one numeric field over the city groups S
RECURSIVE SumCounts(_, _, _)
SumCounts(city_data, field, S) ==
    IF S = {} THEN 0
    ELSE city_data[CHOOSE c \in S : TRUE][field].count
         + SumCounts(city_data, field, S \ {CHOOSE c \in S : TRUE})

\* both aggregations returned a result for the same non-empty dataset, the
\* per-city one called without allow-list
BothAggregated ==
    /\ AnalyzedAll
    /\ "city_data" \in DOMAIN analysis.value
    /\ comparison.raised = ""
    /\ "total_cities" \in DOMAIN comparison.value

\* C15: on a dataset produced by normalize_row_data, without allow-list,
\* cities_analyzed equals compare_team_data's total_cities, and for each
\* numeric field the per-city counts sum to the team-wide count.
C15_AggregationsAgree ==
    BothAggregated =>
        /\ analysis.value.cities_analyzed = comparison.value.total_cities
        /\ SumCounts(analysis.value.city_data, "temperature", DOMAIN analysis.value.city_data)
               = comparison.value.temperature_stats.count
        /\ SumCounts(analysis.value.city_data, "humidity", DOMAIN analysis.value.city_data)
               = comparison.value.humidity_stats.count
        /\ SumCounts(analysis.value.city_data, "wind", DOMAIN analysis.value.city_data)
               = comparison.value.wind_stats.count

\* C15 witness: both aggregations ran over three records with temperatures,
\* which fall into two city groups, one of them the defaulted city 'Unknown'
\* and one holding two of the temperatures.
C15_Witness ==
    /\ BothAggregated
    /\ comparison.value.temperature_stats.count = 3
    /\ analysis.value.cities_analyzed = 2
    /\ Str(STR_Unknown) \in DOMAIN analysis.value.city_data
    /\ \E c \in DOMAIN analysis.value.city_data :
           analysis.value.city_data[c].temperature.count = 2

(***************************************************************************)
(* Properties of export_team_data_csv                                      *)
(***************************************************************************)
\* a non-empty dataset was exported
Exported == exported.raised = "" /\ "fieldnames" \in DOMAIN exported.value

StandardFields == {"timestamp", "member_name", "city", "country", "temperature",
                   "humidity", "wind_speed", "weather_main", "weather_description"}

\* the first n columns are standard fields in the fixed order, the others
\* are further keys in ascending order
SplitsAt(columns, n) ==
    /\ \A i \in 1..n : columns[i] \in StandardFields
    /\ \A i \in (n + 1)..Len(columns) : columns[i] \notin StandardFields
    /\ \A i \in 1..n : \A j \in (i + 1)..n :
           IndexOf(columns[i], standard_fields) < IndexOf(columns[j], standard_fields)
    /\ \A i \in (n + 1)..Len(columns) : \A j \in (i + 1)..Len(columns) :
           KeyLess(columns[i], columns[j])

\* C13: for a non-empty record sequence the column list of
\* export_team_data_csv is the standard fields occurring in some record, in
\* their fixed order, then all remaining keys in ascending order; every key
\* of any record appears exactly once and no column occurs in no record.
C13_ColumnOrder ==
    Exported =>
        /\ \E n \in 0..Len(exported.value.fieldnames) : SplitsAt(exported.value.fieldnames, n)
        /\ \A i \in 1..Len(team_data) : \A k \in DOMAIN team_data[i] :
               Cardinality({j \in 1..Len(exported.value.fieldnames) :
                                exported.value.fieldnames[j] = k}) = 1
        /\ \A j \in 1..Len(exported.value.fieldnames) :
               \E i \in 1..Len(team_data) : exported.value.fieldnames[j] \in DOMAIN team_data[i]

\* C13 witness: an export of records that lack a standard field (humidity)
\* and hold two further keys, one capitalised and one in lower case.
C13_Witness ==
    /\ Exported
    /\ \A i \in 1..Len(team_data) : "humidity" \notin DOMAIN team_data[i]
    /\ \E i \in 1..Len(team_data) : "Wind" \in DOMAIN team_data[i]
    /\ \E i \in 1..Len(team_data) : "location" \in DOMAIN team_data[i]

(***************************************************************************)
(* Round trip: normalize, export, load the export (under SpecRoundTrip)    *)
(***************************************************************************)
\* two values agree: the same text, or floats no further apart than the
\* precision of the written number
SameValue(a, b) ==
    IF IsFloat(a) /\ IsFloat(b)
    THEN Abs(a.num * b.den - b.num * a.den) * Pow10(ReprDigits) <= a.den * b.den
    ELSE a = b

\* the exported record was loaded back
Reloaded == reloaded.raised = ""

\* C12: the record normalize_row_data produced, exported under the canonical
\* column names and normalized again, has the same member_name, timestamp,
\* city, country, temperature, humidity, wind_speed, weather_main and
\* weather_description; a Celsius temperature is not converted again.
C12_RoundTripStable ==
    Reloaded =>
        /\ Len(reloaded.value) = 1
        /\ \A f \in CanonicalFields :
               /\ f \in DOMAIN reloaded.value[1] <=> f \in DOMAIN result.value
               /\ f \in DOMAIN result.value => SameValue(reloaded.value[1][f], result.value[f])

====
